---- MODULE Spec2Model ----
(***************************************************************************)
(* A model of the log-telemetry pipeline of aiops_sre:                     *)
(*   - LogGenerator (log_generator.py): the replay engine, its background  *)
(*     loop thread(s), its lock, the target log file;                      *)
(*   - the Streamlit script (streamlit_app.py): the button handlers, the   *)
(*     tailer step, the auto-analyze block and run_crew_analysis.          *)
(*                                                                         *)
(* Conventions.  A missing target file and an empty one are the same state *)
(* (every reader of the code treats them alike, and open(..., "a") creates *)
(* the file).  A file is the sequence of the lines splitlines() returns.   *)
(* A line is a record [text, cut]: cut = TRUE means that only a proper     *)
(* fragment of text is in the file (a write that a reader sees half done). *)
(***************************************************************************)
EXTENDS Integers, Sequences, FiniteSets, TLC

VARIABLES
    \* ---- LogGenerator object (log_generator.py) ----
    running,           \* self.running
    current_line,      \* self.current_line
    interval_seconds,  \* self.interval_seconds, in tenths of a second
    thread,            \* self.thread: 0 is None, else the latest Thread
    lock,              \* self.lock: 0 is free, else the loop thread holding it
    pc,                \* position of each loop thread in _generator_loop
    slept,             \* the loop's local `slept`, in ticks of sleep_interval
    start_from_line,   \* the constructor's start_from_line argument
    \* ---- files ----
    source_file,       \* content of logs_source.jsonl (sequence of texts)
    target_file,       \* content of fleet_health.log (sequence of lines)
    \* ---- the caller of the generator / the Streamlit script thread ----
    spc,               \* position of the script (or driver) thread
    log_generator,     \* st.session_state.log_generator is not None
    last_log_count,    \* st.session_state.last_log_count
    log_entries,       \* st.session_state.log_entries (the "raw" of each)
    all_lines,         \* all_lines as the tailer step last read it (<<>> after a reset)
    rawSeen,           \* the new_lines the tailer consumed, in order, as read
    crew_running,      \* st.session_state.crew_running
    last_analysis_time,\* st.session_state.last_analysis_time (-1 is None)
    auto_analyze,      \* the "Auto-analyze on new logs" checkbox
    analysis_interval, \* the "Analysis Interval" slider, in time units
    dispatched,        \* analysis threads started that have not yet run a line
    kickoff,           \* background run_crew_analysis calls inside kickoff()
    cycleGrew,         \* the tailer step of this script run found new lines
    \* ---- time ----
    now,               \* datetime.now(), in units of 5 seconds (the slider's step)
    clock              \* time spent in time.sleep(sleep_interval), in ticks

genVars  == <<running, current_line, interval_seconds, thread, lock, pc, slept,
              start_from_line>>
fileVars == <<source_file, target_file>>
tailVars == <<last_log_count, log_entries, all_lines, rawSeen>>
gateVars == <<crew_running, last_analysis_time, auto_analyze, analysis_interval,
              dispatched, kickoff, cycleGrew>>
vars     == <<genVars, fileVars, spc, log_generator, tailVars, gateVars, now, clock>>

(***************************************************************************)
(* Bounds of the model.                                                    *)
(***************************************************************************)
MaxThreads == 2        \* loop threads that can exist at once
SourceLen == 3         \* lines of the source corpus
TimedSourceLen == 5    \* lines of the source corpus in the timed scenario
MaxStartLine == 1      \* largest start_from_line tried
MaxTime == 3           \* largest value of now
MaxInFlight == 2       \* background analysis threads that can exist at once

Threads == 1..MaxThreads

(***************************************************************************)
(* The source corpus.  Texts are abstract; JsonKind says what json.loads   *)
(* makes of each.  The corpus repeats a record, and holds an empty JSON    *)
(* object and a line that is not JSON.                                     *)
(***************************************************************************)
CorpusText == <<"recA", "{}", "recA", "not json", "recB", "recC", "recD", "recE">>

Corpus(n) == SubSeq(CorpusText, 1, n)

JsonKind(text) ==
    CASE text = "{}" -> "empty_object"
      [] text \in {"not json", "stale"} -> "malformed"
      [] OTHER -> "object"

Line(text, cut) == [text |-> text, cut |-> cut]

None == [kind |-> "None", of |-> ""]

Min(a, b) == IF a < b THEN a ELSE b

(***************************************************************************)
(* _read_source_lines and the locals lines, total_lines of the loop: the   *)
(* source file does not change during a run, so every activation reads the *)
(* same lines.  A missing or unreadable source reads as no lines.          *)
(***************************************************************************)
total_lines == Len(source_file)

(***************************************************************************)
(* LogGenerator.start().  `file` is the target file as the caller left it. *)
(* A new Thread takes the lowest free slot.                                *)
(***************************************************************************)
FreeThread == CHOOSE t \in Threads : pc[t] = "dead" /\ \A u \in Threads : pc[u] = "dead" => t <= u

CanSpawn == \E t \in Threads : pc[t] = "dead"

start(file) ==
    IF running
    THEN /\ target_file' = file
         /\ UNCHANGED <<running, thread, pc>>
    ELSE /\ CanSpawn
         /\ target_file' = IF current_line = 0 THEN <<>> ELSE file
         /\ running' = TRUE
         /\ thread' = FreeThread
         /\ pc' = [pc EXCEPT ![FreeThread] = "start"]

(***************************************************************************)
(* LogGenerator.stop(): the part before join, then the two ways join ends. *)
(***************************************************************************)
\* stop() without its `if not self.running: return`
stopUnguarded ==
    /\ running' = FALSE
    /\ spc' = IF thread # 0 THEN "join" ELSE "top"

stop ==
    IF ~running
    THEN UNCHANGED <<running, spc>>
    ELSE /\ running' = FALSE
         /\ spc' = IF thread # 0 THEN "join" ELSE "top"

StopJoined ==
    /\ spc = "join"
    /\ pc[thread] = "dead"
    /\ spc' = "top"
    /\ UNCHANGED <<genVars, fileVars, log_generator, tailVars, gateVars, now, clock>>

StopTimeout ==
    /\ spc = "join"
    /\ pc[thread] # "dead"
    /\ spc' = "top"
    /\ UNCHANGED <<genVars, fileVars, log_generator, tailVars, gateVars, now, clock>>

(***************************************************************************)
(* LogGenerator.reset(): with self.lock held, cursor to 0 and truncate.    *)
(***************************************************************************)
reset ==
    /\ lock = 0
    /\ current_line' = 0
    /\ target_file' = <<>>

(***************************************************************************)
(* _generator_loop, one action per step of a loop thread t.                *)
(***************************************************************************)
LoopBegin(t) ==
    /\ pc[t] = "start"
    /\ pc' = [pc EXCEPT ![t] = IF total_lines = 0 THEN "dead" ELSE "check"]
    /\ UNCHANGED <<running, current_line, interval_seconds, thread, lock, slept,
                   start_from_line, fileVars, spc, log_generator, tailVars,
                   gateVars, now, clock>>

LoopCheck(t) ==
    /\ pc[t] = "check"
    /\ pc' = [pc EXCEPT ![t] = IF running /\ current_line < total_lines
                               THEN "acq" ELSE "dead"]
    /\ UNCHANGED <<running, current_line, interval_seconds, thread, lock, slept,
                   start_from_line, fileVars, spc, log_generator, tailVars,
                   gateVars, now, clock>>

LoopAcquire(t) ==
    /\ pc[t] = "acq"
    /\ lock = 0
    /\ IF current_line < total_lines
       THEN /\ lock' = t
            /\ pc' = [pc EXCEPT ![t] = "write"]
            /\ UNCHANGED slept
       ELSE /\ lock' = 0
            /\ pc' = [pc EXCEPT ![t] = "sleep"]
            /\ slept' = [slept EXCEPT ![t] = 0]
    /\ UNCHANGED <<running, current_line, interval_seconds, thread,
                   start_from_line, fileVars, spc, log_generator, tailVars,
                   gateVars, now, clock>>

\* _write_log_entry: entry + "\n" appended in one write
LoopWrite(t) ==
    /\ pc[t] = "write"
    /\ target_file' = Append(target_file, Line(source_file[current_line + 1], FALSE))
    /\ pc' = [pc EXCEPT ![t] = "incr"]
    /\ UNCHANGED <<running, current_line, interval_seconds, thread, lock, slept,
                   start_from_line, source_file, spc, log_generator, tailVars,
                   gateVars, now, clock>>

\* _write_log_entry: a reader can see the line when only part of it is written
LoopWriteTorn(t) ==
    /\ pc[t] = "write"
    /\ target_file' = Append(target_file, Line(source_file[current_line + 1], TRUE))
    /\ pc' = [pc EXCEPT ![t] = "torn"]
    /\ UNCHANGED <<running, current_line, interval_seconds, thread, lock, slept,
                   start_from_line, source_file, spc, log_generator, tailVars,
                   gateVars, now, clock>>

\* the rest of the line arrives (after a truncation in between it is a fragment)
LoopWriteRest(t) ==
    /\ pc[t] = "torn"
    /\ LET entry == source_file[current_line + 1]
           n == Len(target_file)
       IN  target_file' = IF n > 0 /\ target_file[n] = Line(entry, TRUE)
                          THEN [target_file EXCEPT ![n] = Line(entry, FALSE)]
                          ELSE Append(target_file, Line(entry, TRUE))
    /\ pc' = [pc EXCEPT ![t] = "incr"]
    /\ UNCHANGED <<running, current_line, interval_seconds, thread, lock, slept,
                   start_from_line, source_file, spc, log_generator, tailVars,
                   gateVars, now, clock>>

\* _write_log_entry without its try/except: the exception ends the thread
\* (leaving `with self.lock` releases the lock)
LoopWriteFailAborts(t) ==
    /\ pc[t] = "write"
    /\ pc' = [pc EXCEPT ![t] = "dead"]
    /\ lock' = 0
    /\ UNCHANGED <<running, current_line, interval_seconds, thread, slept,
                   start_from_line, fileVars, spc, log_generator, tailVars,
                   gateVars, now, clock>>

\* _write_log_entry: open() or write() raises, the except clause prints and returns
LoopWriteFail(t) ==
    /\ pc[t] = "write"
    /\ pc' = [pc EXCEPT ![t] = "incr"]
    /\ UNCHANGED <<running, current_line, interval_seconds, thread, lock, slept,
                   start_from_line, fileVars, spc, log_generator, tailVars,
                   gateVars, now, clock>>

LoopIncr(t) ==
    /\ pc[t] = "incr"
    /\ current_line' = current_line + 1
    /\ lock' = 0
    /\ pc' = [pc EXCEPT ![t] = "sleep"]
    /\ slept' = [slept EXCEPT ![t] = 0]
    /\ UNCHANGED <<running, interval_seconds, thread, start_from_line, fileVars,
                   spc, log_generator, tailVars, gateVars, now, clock>>

(***************************************************************************)
(* The sleep of the loop: `while self.running and slept <                  *)
(* self.interval_seconds: time.sleep(0.1); slept += 0.1`.  slept is a      *)
(* float: the sum of k terms 0.1 first reaches the interval after          *)
(* TicksFor(interval) terms (ten terms sum to 0.9999999999999999 < 1.0).   *)
(***************************************************************************)
TicksFor(interval) ==
    CASE interval = 5 -> 5
      [] interval = 10 -> 11
      [] interval = 15 -> 15
      [] interval = 20 -> 20
      [] OTHER -> interval

KeepSleepingLE(k, interval) == k <= TicksFor(interval)

KeepSleeping(k, interval) == k < TicksFor(interval)

\* one time.sleep(sleep_interval), timed
SleepTick(t) ==
    /\ pc[t] = "sleep"
    /\ running /\ KeepSleeping(slept[t], interval_seconds)
    /\ slept' = [slept EXCEPT ![t] = slept[t] + 1]
    /\ clock' = clock + 1
    /\ UNCHANGED <<running, current_line, interval_seconds, thread, lock, pc,
                   start_from_line, fileVars, spc, log_generator, tailVars,
                   gateVars, now>>

\* the inner while ends, timed
SleepExit(t) ==
    /\ pc[t] = "sleep"
    /\ ~(running /\ KeepSleeping(slept[t], interval_seconds))
    /\ pc' = [pc EXCEPT ![t] = "check"]
    /\ UNCHANGED <<running, current_line, interval_seconds, thread, lock, slept,
                   start_from_line, fileVars, spc, log_generator, tailVars,
                   gateVars, now, clock>>

\* the whole inner while, its duration left open
LoopWake(t) ==
    /\ pc[t] = "sleep"
    /\ pc' = [pc EXCEPT ![t] = "check"]
    /\ UNCHANGED <<running, current_line, interval_seconds, thread, lock, slept,
                   start_from_line, fileVars, spc, log_generator, tailVars,
                   gateVars, now, clock>>

LoopStep(t) ==
    \/ LoopBegin(t)
    \/ LoopCheck(t)
    \/ LoopAcquire(t)
    \/ LoopWrite(t)
    \/ LoopIncr(t)

LoopTorn(t) ==
    \/ LoopWriteTorn(t)
    \/ LoopWriteRest(t)

(***************************************************************************)
(* The generator driven directly by one caller: start(), stop(), reset().  *)
(***************************************************************************)
GenStart ==
    /\ spc = "top"
    /\ start(target_file)
    /\ UNCHANGED <<current_line, interval_seconds, lock, slept, start_from_line,
                   source_file, spc, log_generator, tailVars, gateVars, now, clock>>

GenStop ==
    /\ spc = "top"
    /\ stop
    /\ UNCHANGED <<current_line, interval_seconds, thread, lock, pc, slept,
                   start_from_line, fileVars, log_generator, tailVars, gateVars,
                   now, clock>>

GenReset ==
    /\ spc = "top"
    /\ reset
    /\ UNCHANGED <<running, interval_seconds, thread, lock, pc, slept,
                   start_from_line, source_file, spc, log_generator, tailVars,
                   gateVars, now, clock>>

InitCommon ==
    /\ running = FALSE
    /\ thread = 0
    /\ lock = 0
    /\ pc = [t \in Threads |-> "dead"]
    /\ slept = [t \in Threads |-> 0]
    /\ spc = "top"
    /\ last_log_count = 0
    /\ log_entries = <<>>
    /\ all_lines = <<>>
    /\ rawSeen = <<>>
    /\ crew_running = FALSE
    /\ last_analysis_time = -1
    /\ analysis_interval = 2
    /\ dispatched = 0
    /\ kickoff = 0
    /\ cycleGrew = FALSE
    /\ now = 0
    /\ clock = 0

\* LogGenerator.__init__, any start_from_line, the target file empty or left over
InitGen ==
    /\ InitCommon
    /\ log_generator = TRUE
    /\ auto_analyze = TRUE
    /\ interval_seconds = 20
    /\ start_from_line \in 0..MaxStartLine
    /\ current_line = start_from_line
    /\ source_file \in {Corpus(0), Corpus(SourceLen)}
    /\ target_file \in {<<>>, <<Line("stale", FALSE)>>}

NextGen ==
    \/ GenStart
    \/ GenStop
    \/ StopJoined
    \/ StopTimeout
    \/ GenReset
    \/ \E t \in Threads : LoopStep(t) \/ LoopTorn(t) \/ LoopWake(t)

SpecGen == InitGen /\ [][NextGen]_vars

(***************************************************************************)
(* The same under the scheduler's guarantee: a loop thread that can take   *)
(* a step (it is not waiting for the lock) eventually takes one.  Nothing  *)
(* is assumed of the caller.                                               *)
(***************************************************************************)
SpecLive ==
    /\ InitGen
    /\ [][NextGen]_vars
    /\ \A t \in Threads : WF_vars(LoopStep(t) \/ LoopTorn(t) \/ LoopWake(t))

(***************************************************************************)
(* The generator with a target file whose appends can fail (SpecGen and    *)
(* the other specifications are the runs in which no append fails).  Every *)
(* stop() joins its loop here, so that a record missing from the log is    *)
(* missing because its append failed.                                      *)
(***************************************************************************)
NextFail ==
    \/ GenStart
    \/ GenStop
    \/ StopJoined
    \/ GenReset
    \/ \E t \in Threads : LoopStep(t) \/ LoopWriteFail(t) \/ LoopWake(t)

SpecFail == InitGen /\ [][NextFail]_vars

(***************************************************************************)
(* The timed scenario: start() at time 0, one activation, time passing     *)
(* only in time.sleep (every other step takes no time).                    *)
(***************************************************************************)
InitTimed ==
    /\ InitCommon
    /\ log_generator = TRUE
    /\ auto_analyze = TRUE
    /\ interval_seconds \in {5, 10}
    /\ start_from_line = 0
    /\ current_line = start_from_line
    /\ source_file = Corpus(TimedSourceLen)
    /\ target_file = <<>>

NextTimed ==
    \/ GenStart
    \/ \E t \in Threads : LoopStep(t) \/ LoopTorn(t) \/ SleepTick(t) \/ SleepExit(t)

SpecTimed == InitTimed /\ [][NextTimed]_vars

(***************************************************************************)
(* streamlit_app.py.  One run of the script goes: the Start, Stop and      *)
(* Reset handlers (each ends in st.rerun()), the status display            *)
(* (get_status, which takes the lock), the Run Analysis Now handler, the   *)
(* tailer step, the auto-analyze block, then time.sleep(2) and st.rerun(). *)
(* spc: "top" before the handlers, "tail" before the tailer step, "gate"   *)
(* before the auto-analyze block, "join" inside stop()'s join, "manual"    *)
(* inside the synchronous run_crew_analysis of Run Analysis Now.           *)
(***************************************************************************)
Intervals == {5, 10}

SliderIntervals == {20}

Cooldowns == {1, 2}

\* parse_log_entry: json.loads, None when it raises
parse_log_entry(line) ==
    IF line.cut \/ JsonKind(line.text) = "malformed"
    THEN None
    ELSE [kind |-> JsonKind(line.text), of |-> line.text]

\* Python's truth value of what parse_log_entry returns (`if parsed:`)
Truthy(parsed) == parsed # None /\ parsed.kind # "empty_object"

InEntries(entries, line) == \E i \in 1..Len(entries) : entries[i] = line

\* lines 293-301 for one line: the mutant without the `not any(...)` test
AdmitNoDedup(entries, line) ==
    IF Truthy(parse_log_entry(line)) THEN Append(entries, line) ELSE entries

\* lines 293-301 for one line, the new entry put first instead of appended
AdmitFirst(entries, line) ==
    IF Truthy(parse_log_entry(line)) /\ ~InEntries(entries, line)
    THEN <<line>> \o entries
    ELSE entries

\* lines 293-301 for one line
Admit(entries, line) ==
    IF Truthy(parse_log_entry(line)) /\ ~InEntries(entries, line)
    THEN Append(entries, line)
    ELSE entries

\* the for loop of lines 292-301
RECURSIVE AdmitAll(_, _)
AdmitAll(entries, lines) ==
    IF lines = <<>> THEN entries
    ELSE AdmitAll(Admit(entries, Head(lines)), Tail(lines))

\* the Start button: lines 203-226
ClickStart ==
    /\ spc = "top"
    /\ ~(log_generator /\ running)
    /\ log_generator' = TRUE
    /\ \E interval \in SliderIntervals : interval_seconds' = interval
    /\ last_log_count' = 0
    /\ log_entries' = <<>>
    /\ rawSeen' = <<>>
    /\ all_lines' = <<>>
    /\ start(<<>>)
    /\ UNCHANGED <<current_line, lock, slept, start_from_line, source_file, spc,
                   gateVars, now, clock>>

\* the Stop button: lines 229-232
ClickStop ==
    /\ spc = "top"
    /\ log_generator /\ running
    /\ stop
    /\ UNCHANGED <<current_line, interval_seconds, thread, lock, pc, slept,
                   start_from_line, fileVars, log_generator, tailVars, gateVars,
                   now, clock>>

\* the Reset button: lines 234-245
ClickReset ==
    /\ spc = "top"
    /\ IF log_generator THEN reset ELSE UNCHANGED <<current_line, target_file>>
    /\ last_log_count' = 0
    /\ log_entries' = <<>>
    /\ rawSeen' = <<>>
    /\ all_lines' = <<>>
    /\ last_analysis_time' = -1
    /\ UNCHANGED <<running, interval_seconds, thread, lock, pc, slept,
                   start_from_line, source_file, spc, log_generator,
                   crew_running, auto_analyze, analysis_interval, dispatched,
                   kickoff, cycleGrew, now, clock>>

\* the status display: lines 248-254, get_status() takes self.lock
ShowStatus ==
    /\ spc = "top"
    /\ log_generator => lock = 0
    /\ spc' = "tail"
    /\ UNCHANGED <<genVars, fileVars, log_generator, tailVars, gateVars, now, clock>>

\* the checkbox and the slider of lines 261-262, as the user sets them
SetAnalysisControls ==
    /\ spc = "top"
    /\ \E a \in BOOLEAN, c \in Cooldowns :
          /\ <<a, c>> # <<auto_analyze, analysis_interval>>
          /\ auto_analyze' = a
          /\ analysis_interval' = c
    /\ UNCHANGED <<genVars, fileVars, spc, log_generator, tailVars, crew_running,
                   last_analysis_time, dispatched, kickoff, cycleGrew, now, clock>>

\* the tailer step: lines 285-303
TailerStep ==
    /\ spc = "tail"
    /\ all_lines' = target_file
    /\ LET current_log_count == Len(target_file)
           new_lines == SubSeq(target_file, last_log_count + 1, current_log_count)
       IN  IF current_log_count > last_log_count
           THEN /\ log_entries' = AdmitAll(log_entries, new_lines)
                /\ rawSeen' = rawSeen \o new_lines
                /\ last_log_count' = current_log_count
                /\ cycleGrew' = TRUE
           ELSE /\ UNCHANGED <<log_entries, rawSeen, last_log_count>>
                /\ cycleGrew' = FALSE
    /\ spc' = "gate"
    /\ UNCHANGED <<genVars, fileVars, log_generator, crew_running,
                   last_analysis_time, auto_analyze, analysis_interval,
                   dispatched, kickoff, now, clock>>

(***************************************************************************)
(* run_crew_analysis (lines 176-188) and its callers.                      *)
(***************************************************************************)
\* line 375: elapsed time since the last completion, infinite when None
CooldownOver ==
    \/ last_analysis_time = -1
    \/ now - last_analysis_time >= analysis_interval

\* analysis invocations in flight: threads started, calls in kickoff, the manual one
InFlight == dispatched + kickoff + (IF spc = "manual" THEN 1 ELSE 0)

\* lines 372-376: the conditions under which the block starts a thread
GateFires ==
    /\ log_generator /\ running
    /\ Len(target_file) > last_log_count
    /\ auto_analyze /\ ~crew_running
    /\ CooldownOver

\* the auto-analyze block: lines 365-386
GateStep ==
    /\ spc = "gate"
    /\ IF GateFires
       THEN /\ dispatched + kickoff < MaxInFlight
            /\ dispatched' = dispatched + 1
       ELSE UNCHANGED dispatched
    /\ spc' = "top"
    /\ UNCHANGED <<genVars, fileVars, log_generator, tailVars, crew_running,
                   last_analysis_time, auto_analyze, analysis_interval, kickoff,
                   cycleGrew, now, clock>>

\* the thread of lines 378-382 runs line 179
AnalysisBegin ==
    /\ dispatched > 0
    /\ dispatched' = dispatched - 1
    /\ kickoff' = kickoff + 1
    /\ crew_running' = TRUE
    /\ UNCHANGED <<genVars, fileVars, spc, log_generator, tailVars,
                   last_analysis_time, auto_analyze, analysis_interval,
                   cycleGrew, now, clock>>

\* lines 180-184: kickoff returns
AnalysisDone ==
    /\ kickoff > 0
    /\ kickoff' = kickoff - 1
    /\ last_analysis_time' = now
    /\ crew_running' = FALSE
    /\ UNCHANGED <<genVars, fileVars, spc, log_generator, tailVars, auto_analyze,
                   analysis_interval, dispatched, cycleGrew, now, clock>>

\* lines 185-188: kickoff raises
AnalysisFail ==
    /\ kickoff > 0
    /\ kickoff' = kickoff - 1
    /\ crew_running' = FALSE
    /\ UNCHANGED <<genVars, fileVars, spc, log_generator, tailVars,
                   last_analysis_time, auto_analyze, analysis_interval,
                   dispatched, cycleGrew, now, clock>>

\* the Run Analysis Now button, lines 264-267: run_crew_analysis in the script thread
ManualBegin ==
    /\ spc = "tail"
    /\ ~crew_running
    /\ crew_running' = TRUE
    /\ spc' = "manual"
    /\ UNCHANGED <<genVars, fileVars, log_generator, tailVars, last_analysis_time,
                   auto_analyze, analysis_interval, dispatched, kickoff,
                   cycleGrew, now, clock>>

ManualDone ==
    /\ spc = "manual"
    /\ last_analysis_time' = now
    /\ crew_running' = FALSE
    /\ spc' = "top"
    /\ UNCHANGED <<genVars, fileVars, log_generator, tailVars, auto_analyze,
                   analysis_interval, dispatched, kickoff, cycleGrew, now, clock>>

ManualFail ==
    /\ spc = "manual"
    /\ crew_running' = FALSE
    /\ spc' = "top"
    /\ UNCHANGED <<genVars, fileVars, log_generator, tailVars, last_analysis_time,
                   auto_analyze, analysis_interval, dispatched, kickoff,
                   cycleGrew, now, clock>>

\* time passes
Tick ==
    /\ now < MaxTime
    /\ now' = now + 1
    /\ UNCHANGED <<genVars, fileVars, spc, log_generator, tailVars, gateVars, clock>>

\* the session before the first click: no generator yet, a target file maybe left over
InitApp ==
    /\ InitCommon
    /\ log_generator = FALSE
    /\ auto_analyze = TRUE
    /\ interval_seconds = 20
    /\ start_from_line = 0
    /\ current_line = start_from_line
    /\ source_file = Corpus(SourceLen)
    /\ target_file = <<>>

(***************************************************************************)
(* The whole system.  SpecTail and SpecGate below are restrictions of it   *)
(* (fewer actions, the same initial state up to the checkbox), so each of  *)
(* their behaviours is a behaviour of the program.                         *)
(***************************************************************************)
Next ==
    \/ ClickStart
    \/ ClickStop
    \/ StopJoined
    \/ StopTimeout
    \/ ClickReset
    \/ ShowStatus
    \/ SetAnalysisControls
    \/ TailerStep
    \/ GateStep
    \/ AnalysisBegin
    \/ AnalysisDone
    \/ AnalysisFail
    \/ ManualBegin
    \/ ManualDone
    \/ ManualFail
    \/ Tick
    \/ \E t \in Threads : LoopStep(t) \/ LoopTorn(t) \/ LoopWriteFail(t) \/ LoopWake(t)

Spec == InitApp /\ [][Next]_vars

(***************************************************************************)
(* The replay engine and the tailer, the analysis left out: the checkbox   *)
(* is unticked and Run Analysis Now is not clicked, so the auto-analyze    *)
(* block never starts a thread.  The analysis writes no variable the       *)
(* generator or the tailer step reads.                                     *)
(***************************************************************************)
InitTail ==
    /\ InitCommon
    /\ log_generator = FALSE
    /\ auto_analyze = FALSE
    /\ interval_seconds = 20
    /\ start_from_line = 0
    /\ current_line = start_from_line
    /\ source_file = Corpus(SourceLen)
    /\ target_file = <<>>

NextTail ==
    \/ ClickStart
    \/ ClickStop
    \/ StopJoined
    \/ StopTimeout
    \/ ClickReset
    \/ ShowStatus
    \/ TailerStep
    \/ GateStep
    \/ \E t \in Threads : LoopStep(t) \/ LoopTorn(t) \/ LoopWake(t)

SpecTail == InitTail /\ [][NextTail]_vars

(***************************************************************************)
(* The same with a corpus of distinct valid records (the tail of           *)
(* CorpusText), so that several entries are admitted.                      *)
(***************************************************************************)
InitOrder ==
    /\ InitCommon
    /\ log_generator = FALSE
    /\ auto_analyze = FALSE
    /\ interval_seconds = 20
    /\ start_from_line = 0
    /\ current_line = start_from_line
    /\ source_file = SubSeq(CorpusText, Len(CorpusText) - SourceLen + 1, Len(CorpusText))
    /\ target_file = <<>>

SpecOrder == InitOrder /\ [][NextTail]_vars

(***************************************************************************)
(* The trigger gate: the script, the analysis threads and the clock, with  *)
(* a replay loop whose writes are whole and whose stop() always joins.     *)
(***************************************************************************)
NextGate ==
    \/ ClickStart
    \/ ClickStop
    \/ StopJoined
    \/ ClickReset
    \/ ShowStatus
    \/ SetAnalysisControls
    \/ TailerStep
    \/ GateStep
    \/ AnalysisBegin
    \/ AnalysisDone
    \/ AnalysisFail
    \/ ManualBegin
    \/ ManualDone
    \/ ManualFail
    \/ Tick
    \/ \E t \in Threads : LoopStep(t) \/ LoopWake(t)

SpecGate == InitApp /\ [][NextGate]_vars

(***************************************************************************)
(* Properties of the trigger gate, checked under SpecGate.                 *)
(***************************************************************************)

\* C1: at most one analysis invocation (run_crew_analysis call, from the
\* start of its thread to its return) is in flight at any time.
C1_AtMostOneInFlight == InFlight <= 1

\* C2: an invocation that ends, by returning or by raising, leaves the
\* in-flight flag cleared and the completion time recorded (so the cooldown
\* runs from a failure as it does from a success).
C2_FailureRecordsCompletion ==
    [][(kickoff' < kickoff \/ (spc = "manual" /\ spc' # "manual"))
          => (~crew_running' /\ last_analysis_time' = now)]_vars

\* C3: in a polling cycle whose tailer step found new lines, with
\* auto-analyze enabled, the generator running, no analysis in flight and the
\* cooldown over, the auto-analyze block starts an analysis.
C3_NewDataFires ==
    [][(spc = "gate" /\ spc' = "top" /\ cycleGrew /\ log_generator /\ running
          /\ auto_analyze /\ InFlight = 0 /\ CooldownOver)
          => dispatched' = dispatched + 1]_vars

\* C4: an automatic trigger is dispatched only when auto-analyze is enabled,
\* the cooldown since the last recorded completion is over, the line count
\* has grown, and no analysis is in flight.
C4_NoUntimelyDispatch ==
    [][dispatched' > dispatched
          => (auto_analyze /\ CooldownOver /\ Len(target_file) > last_log_count
              /\ InFlight = 0)]_vars

(***************************************************************************)
(* Properties of the tailer, checked under SpecTail.                       *)
(***************************************************************************)
Count(seq, x) == Cardinality({i \in 1..Len(seq) : seq[i] = x})

\* a complete line holding a JSON object
IsJsonObjectLine(line) ==
    ~line.cut /\ JsonKind(line.text) \in {"object", "empty_object"}

RECURSIVE FirstOccurrences(_, _)
FirstOccurrences(seen, seq) ==
    IF seq = <<>> THEN seen
    ELSE FirstOccurrences(IF InEntries(seen, Head(seq)) THEN seen
                          ELSE Append(seen, Head(seq)), Tail(seq))

\* C5: when a tailer step read the last line of the file cut short and the
\* next one reads the same file with that line complete, the complete line
\* is in the entry sequence exactly once after it.
C5_TornLineAdmittedOnce ==
    [][LET n == Len(all_lines) IN
        (/\ spc = "tail" /\ spc' = "gate"
         /\ n > 0 /\ Len(target_file) = n
         /\ all_lines[n].cut
         /\ target_file = [all_lines EXCEPT ![n] = Line(all_lines[n].text, FALSE)]
         /\ Truthy(parse_log_entry(target_file[n])))
        => Count(log_entries', target_file[n]) = 1]_vars

\* no two admitted entries have the same raw text
C8_NoDuplicateEntries ==
    \A i, j \in 1..Len(log_entries) : i # j => log_entries[i] # log_entries[j]

\* C8: the tailer never re-admits a raw line already among the entries, and
\* re-scanning unchanged file content changes nothing.
C8_IdempotentRescan ==
    /\ []C8_NoDuplicateEntries
    /\ [][(spc = "tail" /\ spc' = "gate" /\ target_file = all_lines)
            => UNCHANGED <<log_entries, last_log_count>>]_vars

\* C8 witness: a re-scan that found nothing new, after a repeated valid line
\* was consumed and admitted once.
C8_Witness ==
    /\ spc = "gate" /\ ~cycleGrew
    /\ target_file = all_lines
    /\ \E i, j \in 1..Len(rawSeen) :
          /\ i < j /\ rawSeen[i] = rawSeen[j]
          /\ Count(log_entries, rawSeen[i]) = 1

\* C9: after a tailer step the entry sequence holds exactly the JSON-object
\* lines among the lines consumed (a repeated line once), and the last
\* observed count is the number of lines read, malformed ones included.
C9_ExactlyTheValidLines ==
    spc = "gate" =>
        /\ log_entries = FirstOccurrences(<<>>, SelectSeq(rawSeen, IsJsonObjectLine))
        /\ last_log_count = Len(all_lines)

(***************************************************************************)
(* Properties of the replay engine, checked under SpecGen and SpecTimed.   *)
(***************************************************************************)
AllDead == \A t \in Threads : pc[t] = "dead"

\* C6: with start offset 0, once start() has been called, whenever no append
\* is in progress the target log is source[0..cursor).
C6_TargetIsSourcePrefix ==
    (start_from_line = 0 /\ thread # 0 /\ lock = 0)
        => target_file = [i \in 1..current_line |-> Line(source_file[i], FALSE)]

\* C7 as stated: with interval 1 s the log holds min(total, floor(t)) lines
\* at t = 0.5, 1.5, 2.5, ... s (clock counts ticks of 0.1 s).
C7_FloorOfTime ==
    (interval_seconds = 10 /\ clock % 10 = 5)
        => Len(target_file) = Min(total_lines, clock \div 10)

\* C7 amended: the first record is appended at start and each later one 11
\* ticks after the previous: min(total, 1 + floor(clock / 11)) lines, and at
\* a tick that is a multiple of 11 the record due then may not be in yet.
C7_FirstAtStartThenEvery11Ticks ==
    interval_seconds = 10 =>
        IF clock % 11 = 0
        THEN Len(target_file) \in {Min(total_lines, clock \div 11),
                                   Min(total_lines, clock \div 11 + 1)}
        ELSE Len(target_file) = Min(total_lines, clock \div 11 + 1)

\* C7 witness: 4.5 s after start the fifth record is in the log.
C7_Witness == interval_seconds = 10 /\ clock = 45 /\ Len(target_file) = 5

\* C10: while the cursor is at total nothing but reset() changes the target
\* log or the cursor; and when every loop has exited and reset() has put the
\* cursor at 0, start() starts a new loop.
StartSpawns == GenStart /\ pc' # pc

C10_RestartAfterReset ==
    /\ [][(current_line = total_lines /\ total_lines > 0 /\ current_line' # 0)
            => UNCHANGED <<target_file, current_line>>]_vars
    /\ []((thread # 0 /\ AllDead /\ current_line = 0 /\ total_lines > 0 /\ spc = "top")
            => ENABLED StartSpawns)

\* C11: the target log is emptied only by a step that leaves the cursor at 0
\* (reset, or a start with cursor 0): a Start after a Stop at cursor k > 0
\* leaves the k lines already in the log in place.
C11_TruncatedOnlyAtCursorZero ==
    [][Len(target_file') < Len(target_file) => current_line' = 0]_vars

\* C12: no truncation of the target log (reset(), the cursor-0 truncation of
\* start()) happens while a loop thread is inside its append step, i.e.
\* holds the lock between reading Entry[cursor] and incrementing the cursor.
C12_TruncationExcludesAppend ==
    [][(GenReset \/ (GenStart /\ ~running /\ current_line = 0)) => lock = 0]_vars

(***************************************************************************)
(* Who waits for whom.                                                     *)
(***************************************************************************)
\* the steps of one polling cycle of the script
PollingCycleStep == ShowStatus \/ TailerStep \/ GateStep

\* C13: while an analysis invocation is in flight the script can take the
\* next step of its polling cycle (status, tailer step, auto-analyze block),
\* unless it waits for something else (stop()'s join, the generator's lock).
C13_AnalysisNeverBlocksPolling ==
    []((InFlight > 0 /\ spc # "join" /\ lock = 0
          /\ dispatched + kickoff < MaxInFlight)
        => ENABLED PollingCycleStep)

\* C14: get_status() returns without waiting, whether or not a loop thread
\* holds the lock.
C14_StatusNeverWaits ==
    []((spc = "top" /\ log_generator) => ENABLED ShowStatus)

\* C15: start() at cursor 0 (as after reset()) leaves the cursor 0 and the
\* target log empty, and they stay so as long as the loop it started has not
\* begun.
C15_EmptyBeforeFirstAppend ==
    /\ [][(GenStart /\ ~running /\ current_line = 0)
            => (current_line' = 0 /\ target_file' = <<>>)]_vars
    /\ [][(thread # 0 /\ pc[thread] = "start" /\ pc'[thread] = "start"
             /\ current_line = 0 /\ target_file = <<>>)
            => (current_line' = 0 /\ target_file' = <<>>)]_vars

\* C16: stop() called while the running flag is false changes nothing.
C16_StopWhenNotRunningIsNoOp ==
    [][(GenStop /\ ~running) => UNCHANGED vars]_vars

\* C16 witness: the engine stopped by a stop() that joined its loop, part of
\* the corpus replayed; a further stop() finds the flag false.
C16_Witness ==
    /\ ~running /\ thread # 0 /\ AllDead /\ spc = "top"
    /\ 0 < current_line /\ current_line < total_lines

\* C17: Run Analysis Now starts an analysis only when none is in flight, and
\* can start one whenever none is in flight (whatever the line count and
\* the cooldown).
C17_ManualRespectsExclusion ==
    /\ [][(spc = "tail" /\ spc' = "manual") => InFlight = 0]_vars
    /\ []((spc = "tail" /\ InFlight = 0) => ENABLED ManualBegin)

\* the loop reads lines[self.current_line] only inside the list
ReadInRange ==
    \A t \in Threads : pc[t] \in {"write", "torn", "incr"}
                          => (0 <= current_line /\ current_line < total_lines)

\* C18: 0 <= cursor <= total in every state, and the loop never reads
\* Entry[cursor] with cursor >= total.
C18_CursorWithinTotal ==
    /\ 0 <= current_line
    /\ current_line <= total_lines
    /\ ReadInRange

(***************************************************************************)
(* Failing appends, checked under SpecFail.                                *)
(***************************************************************************)
\* a is b with some elements left out
RECURSIVE IsSubseq(_, _)
IsSubseq(a, b) ==
    IF a = <<>> THEN TRUE
    ELSE IF b = <<>> THEN FALSE
    ELSE IF Head(a) = Head(b) THEN IsSubseq(Tail(a), Tail(b))
    ELSE IsSubseq(a, Tail(b))

\* C19: an append that fails adds nothing to the target log and changes
\* neither the running flag nor the cursor, and the loop goes on to its
\* increment; the increment advances the cursor by exactly one and leads to
\* the sleep and the next record; so the log is the replayed prefix of the
\* source with only the failed records left out.
C19_WriteFailureContained ==
    /\ [][\A t \in Threads :
            (pc[t] = "write" /\ pc'[t] # "write" /\ target_file' = target_file)
              => (pc'[t] = "incr" /\ UNCHANGED <<running, current_line>>)]_vars
    /\ [][\A t \in Threads :
            (pc[t] = "incr" /\ pc'[t] # "incr")
              => (/\ current_line' = current_line + 1
                  /\ pc'[t] = "sleep"
                  /\ UNCHANGED <<target_file, running>>)]_vars
    /\ []((start_from_line = 0 /\ thread # 0 /\ lock = 0)
            => IsSubseq(target_file,
                        [i \in 1..current_line |-> Line(source_file[i], FALSE)]))

\* C19 witness: the append of the first record failed, the second record was
\* appended after it.
C19_Witness ==
    /\ start_from_line = 0 /\ running /\ lock = 0
    /\ current_line = 2
    /\ target_file = <<Line(source_file[2], FALSE)>>

(***************************************************************************)
(* Order of admission, checked under SpecOrder.                            *)
(***************************************************************************)
\* the texts of a sequence of lines
Texts(lines) == [i \in 1..Len(lines) |-> lines[i].text]

\* C20: the lines the tailer has consumed are the first last_log_count lines
\* of the target log, in file order; the entries are admitted in the order
\* the lines were consumed, and so in the order the records were emitted;
\* the tailer consumes lines only by extending what it consumed (or
\* starting afresh), so a line is consumed no later than its successors.
C20_AdmittedInFileOrder ==
    /\ [](/\ last_log_count = Len(rawSeen)
          /\ last_log_count <= Len(target_file)
          /\ \A i \in 1..last_log_count : rawSeen[i].text = target_file[i].text
          /\ IsSubseq(log_entries, rawSeen)
          /\ IsSubseq(Texts(log_entries), source_file))
    /\ [][\/ rawSeen' = <<>>
          \/ /\ Len(rawSeen') >= Len(rawSeen)
             /\ SubSeq(rawSeen', 1, Len(rawSeen)) = rawSeen
             /\ IsSubseq(log_entries, log_entries')]_vars

\* C20 witness: three records emitted, consumed and admitted, in that order.
C20_Witness ==
    /\ Len(log_entries) = 3
    /\ last_log_count = 3
    /\ Texts(log_entries) = source_file

(***************************************************************************)
(* The running flag and the loop threads, checked under SpecGen.           *)
(***************************************************************************)
\* the loop threads that have been started and have not returned
Alive == {t \in Threads : pc[t] # "dead"}

\* C22: the running flag is true only while a loop thread is alive.
C22_RunningOnlyWhileAlive == running => Alive # {}

\* C23: at most one loop thread is alive at any time.
C23_AtMostOneLoopAlive == Cardinality(Alive) <= 1

(***************************************************************************)
(* Termination of the loop, checked under SpecLive.                        *)
(***************************************************************************)
\* from some point on reset() is not called
FinitelyManyResets == <>[][~GenReset]_vars

\* C21: with finitely many reset() calls every loop thread started
\* eventually returns; it returns only with cursor == total or with the
\* running flag cleared; and while the flag is cleared a loop thread that
\* reaches its `while` test returns, so that it appends at most the record
\* it was already about to append.
C21_LoopsTerminate ==
    /\ FinitelyManyResets
          => \A t \in Threads : [](pc[t] # "dead" => <>(pc[t] = "dead"))
    /\ [][\A t \in Threads :
            (pc[t] # "dead" /\ pc'[t] = "dead")
              => (current_line = total_lines \/ ~running)]_vars
    /\ [][\A t \in Threads :
            (~running /\ pc[t] = "check" /\ pc'[t] # "check")
              => pc'[t] = "dead"]_vars

====
